---- MODULE Spec2Model ----
(***************************************************************************)
(* A model of the read-path aggregators and of the deposit hook of the     *)
(* llamalend interface:                                                    *)
(*   - src/queries/useLoans.tsx      (getLoans, getLoansToLiquidate)       *)
(*   - src/unnamed/part_001          (getAllpools and its enrichments)     *)
(*   - src/queries/admin/useDeposit.tsx (useDeposit)                       *)
(*                                                                         *)
(* One aggregator call is in flight at a time (calls share no state); an   *)
(* await in the code is a point where the call waits for the indexer, the  *)
(* chain or the oracle to answer, and where the wall clock may advance.    *)
(*                                                                         *)
(* Numbers.  The clock is Date.now(), in milliseconds.  A JavaScript       *)
(* number that the code obtains by dividing by 1e18 and by SECONDS_IN_A_DAY*)
(* is kept as the exact value  whole + perDay/86400 + perE18/1e18  (a      *)
(* record of three integers, perDay < 86400): the model does not round to  *)
(* double precision.                                                       *)
(*                                                                         *)
(* Records.  A record constructor lists its fields in the order in which   *)
(* TLC keeps the fields of a record, not in the order of the source.       *)
(***************************************************************************)
EXTENDS Integers, Sequences, FiniteSets, TLC

VARIABLES
    clock,        \* Date.now(), ms
    pc,           \* where the aggregator call in flight stands
    args,         \* the arguments of the call in flight
    calledAt,     \* Date.now() when the call was made
    requests,     \* the outbound requests the call has issued, in order
    pools,        \* getAllpools: the indexer's pool list; liquidation: the pools
    live,         \* per pool: state of getPoolAddlInfo / of getLoans
    admin,        \* per pool: state of getAdminPoolInfo
    fetched,      \* per pool: what the fetch resolved to
    result,       \* what the call returned or threw
    adminRecords, \* Admin Info records produced by getAdminPoolInfo
    hook          \* the deposit hook and the collaborators it drives

vars == <<clock, pc, args, calledAt, requests, pools, live, admin, fetched,
          result, adminRecords, hook>>

(***************************************************************************)
(* Bounds of the model.                                                    *)
(***************************************************************************)
NumLoans == 4       \* loans the indexer knows
MaxTicks == 3       \* half-second clock ticks within a day
MaxDays == 1        \* whole days the clock may jump
MaxPools == 2       \* pools in one pool-list answer

(***************************************************************************)
(* Program constants.                                                      *)
(***************************************************************************)
SECONDS_IN_A_DAY == 86400
MsPerSecond == 1000
\* The clock is observed every half second.
TickMs == MsPerSecond \div 2

(***************************************************************************)
(* Addresses.  An address is who it names and the letter case it is        *)
(* written in; getAddress yields the checksummed form, toLowerCase the     *)
(* lowercase form.                                                         *)
(***************************************************************************)
Absent == [who |-> "absent", form |-> "none"]

Addr(who, form) == [who |-> who, form |-> form]

getAddress(a) == [a EXCEPT !.form = "checksum"]

toLowerCase(a) == [a EXCEPT !.form = "lower"]

Truthy(a) == a # Absent

IndexerForms == {"lower", "upper"}

CallerForms == {"checksum", "lower"}

PoolIds == {"poolA", "poolB"}

UserIds == {"alice", "bob"}

(***************************************************************************)
(* chainConfig(chainId): 1 is a main network, 5 a test network, 99 a chain *)
(* with no indexer endpoint; 0 stands for an absent chainId.               *)
(***************************************************************************)
ChainIds == {0, 1, 5, 99}

chainConfig(chainId) ==
    [subgraphUrl |-> IF chainId \in {1, 5} THEN "subgraph" ELSE "",
     quoteApi |-> IF chainId \in {1, 5} THEN "quote" ELSE "",
     chainProvider |-> chainId \in {1, 5, 99},
     isTestnet |-> chainId = 5]

(***************************************************************************)
(* Errors: what a collaborator rejects with, and the wrapping every catch  *)
(* block applies:  new Error(error.message || (error?.reason ?? fallback)).*)
(***************************************************************************)
NoReason == "(undefined)"

UpstreamErrors ==
    [message : {"", "request failed"}, reason : {NoReason, "call reverted"}]

\* A contract read may also reject with an empty revert reason.
ChainErrors ==
    [message : {"", "request failed"}, reason : {NoReason, "", "call reverted"}]

WrapUnguarded(error, fallback) == [message |-> error.message, reason |-> NoReason]

WrapError(error, fallback) ==
    [message |-> IF error.message # "" THEN error.message
                 ELSE IF error.reason # NoReason THEN error.reason
                 ELSE fallback,
     reason |-> NoReason]

Ok(value) == [message |-> "", value |-> value, status |-> "ok"]

Threw(error) == [message |-> error.message, value |-> <<>>, status |-> "error"]

NoResult == [message |-> "", value |-> <<>>, status |-> "none"]

(***************************************************************************)
(* Sequence helpers.                                                       *)
(***************************************************************************)
RECURSIVE Flatten(_)
Flatten(ss) == IF ss = <<>> THEN <<>> ELSE Head(ss) \o Flatten(Tail(ss))

\* The sub-sequences of s (order kept).
RECURSIVE SubSeqs(_)
SubSeqs(s) ==
    IF s = <<>> THEN {<<>>}
    ELSE LET rest == SubSeqs(Tail(s))
         IN  rest \cup {<<Head(s)>> \o r : r \in rest}

(***************************************************************************)
(* Exact numbers:  whole + perDay/SECONDS_IN_A_DAY + perE18/1e18.          *)
(***************************************************************************)
Num(whole, dayNumerator, e18Numerator) ==
    [whole |-> whole + (dayNumerator \div SECONDS_IN_A_DAY),
     perDay |-> dayNumerator % SECONDS_IN_A_DAY,
     perE18 |-> e18Numerator]

(***************************************************************************)
(* The indexer's loans (IGraphLoanResponse).  Loan i of 1..NumLoans:       *)
(* times are seconds since the epoch, amounts are raw integers.            *)
(***************************************************************************)
PoolOwner(poolName) == IF poolName = "poolA" THEN "carol" ELSE "alice"

SubgraphLoan(i) ==
    [id |-> i,
     nftId |-> 100 + i,
     interest |-> i % 3,
     borrowed |-> i,
     startTime |-> i % 2,
     deadline |-> ((2 * i) % 3) + 1,
     tokenUri |-> "ipfs",
     owner |-> IF i <= 2 THEN "alice" ELSE "bob",
     originalOwner |-> IF i <= 3 THEN "alice" ELSE "bob",
     pool |-> IF i % 2 = 1 THEN "poolA" ELSE "poolB"]

\* The liquidator entities of the indexer: who may liquidate which pool.
LiquidatorsOf(pool) == IF pool = "poolA" THEN {"alice", "bob"} ELSE {"alice"}

\* A loan as the indexer writes it, its addresses in letter case `form`.
GraphLoan(i, form) ==
    LET l == SubgraphLoan(i)
    IN  [id |-> l.id, nftId |-> l.nftId, interest |-> l.interest,
         borrowed |-> l.borrowed, startTime |-> l.startTime,
         deadline |-> l.deadline, tokenUri |-> l.tokenUri,
         owner |-> Addr(l.owner, form),
         pool |-> [owner |-> Addr(PoolOwner(l.pool), form),
                   name |-> l.pool,
                   address |-> Addr(l.pool, form)]]

(***************************************************************************)
(* The queries (gql templates): every address in a filter is lowercased.   *)
(***************************************************************************)
userLoansQuery(userAddress) ==
    [to |-> "indexer", entity |-> "loans", by |-> "originalOwner+owner",
     key |-> toLowerCase(userAddress)]

loansByPoolQuery(poolAddress) ==
    [to |-> "indexer", entity |-> "loans", by |-> "pool",
     key |-> toLowerCase(poolAddress)]

liquidatorsByAddressQuery(liquidatorAddress) ==
    [to |-> "indexer", entity |-> "liquidators", by |-> "address",
     key |-> toLowerCase(liquidatorAddress)]

(***************************************************************************)
(* The indexer.  It stores addresses in lowercase: a filter key in another *)
(* letter case matches nothing.                                            *)
(***************************************************************************)
LoanMatches(query, i) ==
    LET l == SubgraphLoan(i)
    IN  /\ query.key.form = "lower"
        /\ IF query.by = "pool" THEN l.pool = query.key.who
           ELSE l.owner = query.key.who /\ l.originalOwner = query.key.who

\* What the indexer may answer to a loans query: loans that match, by id.
IndexerLoanAnswers(query) ==
    SubSeqs(SelectSeq([i \in 1..NumLoans |-> i], LAMBDA i : LoanMatches(query, i)))

PoolsInOrder == <<"poolA", "poolB">>

\* The pools the indexer lists for a liquidators query.
IndexerLiquidatorPools(query) ==
    SelectSeq(PoolsInOrder, LAMBDA p : query.key.form = "lower" /\ query.key.who \in LiquidatorsOf(p))

(***************************************************************************)
(* infoToRepayLoan (useLoans.tsx 24-38), with Date.now() = now.            *)
(***************************************************************************)
\* Number((Date.now() / 1e3).toFixed(0)): the nearest whole second, halves up.
BlockTimestamp(now) == (now + (MsPerSecond \div 2)) \div MsPerSecond

infoToRepayLoanNoGuard(loan, now) ==
    LET blockTimestamp == BlockTimestamp(now)
    IN  Num(loan.borrowed,
            (blockTimestamp - loan.deadline) * loan.borrowed,
            (blockTimestamp - loan.startTime) * loan.interest * loan.borrowed)

infoToRepayLoan(loan, now) ==
    LET blockTimestamp == BlockTimestamp(now)
        deadline == loan.deadline
        interestE18 == (blockTimestamp - loan.startTime) * loan.interest * loan.borrowed
        lateFeesPerDay == IF blockTimestamp > deadline
                          THEN (blockTimestamp - deadline) * loan.borrowed
                          ELSE 0
    IN  Num(loan.borrowed, lateFeesPerDay, interestE18)

(***************************************************************************)
(* getLoans (useLoans.tsx 84-129).                                         *)
(***************************************************************************)
InvalidArguments == [message |-> "Error: Invalid arguments", reason |-> NoReason]

getLoansStartEndpointFirst(endpoint, userAddress, poolAddress) ==
    IF endpoint = ""
    THEN [result |-> Threw(WrapError(InvalidArguments, "Couldn't get pool data")),
          step |-> "return",
          request |-> <<>>]
    ELSE IF (IF Truthy(poolAddress) THEN FALSE ELSE ~Truthy(userAddress))
    THEN [result |-> Ok(<<>>), step |-> "return", request |-> <<>>]
    ELSE [result |-> NoResult, step |-> "request",
          request |-> IF Truthy(poolAddress) THEN loansByPoolQuery(poolAddress)
                      ELSE userLoansQuery(userAddress)]

\* Lines 95-107: the shortcut, the endpoint check, the query that is sent.
getLoansStart(endpoint, userAddress, poolAddress) ==
    IF (IF Truthy(poolAddress) THEN FALSE ELSE ~Truthy(userAddress))
    THEN [result |-> Ok(<<>>), step |-> "return", request |-> <<>>]
    ELSE IF endpoint = ""
    THEN [result |-> Threw(WrapError(InvalidArguments, "Couldn't get pool data")),
          step |-> "return",
          request |-> <<>>]
    ELSE [result |-> NoResult, step |-> "request",
          request |-> IF Truthy(poolAddress) THEN loansByPoolQuery(poolAddress)
                      ELSE userLoansQuery(userAddress)]

\* Lines 110-124: the view model of one loan.
LoanView(loan, isTestnet, now) ==
    [id |-> loan.id, nftId |-> loan.nftId, interest |-> loan.interest,
     startTime |-> loan.startTime, borrowed |-> loan.borrowed,
     toPay |-> infoToRepayLoan(loan, now),
     deadline |-> loan.deadline * MsPerSecond,
     tokenUri |-> IF isTestnet THEN "" ELSE loan.tokenUri,
     owner |-> loan.owner,
     pool |-> [loan.pool EXCEPT !.address = getAddress(loan.pool.address)]]

\* Line 125: (a, b) => Date.now() - b.deadline - (Date.now() - a.deadline),
\* the first Date.now() reading t1, the second t2.
Comparator(a, b, t1, t2) == (t1 - b.deadline) - (t2 - a.deadline)

\* Array.prototype.sort as an insertion sort: `key` moves left past every
\* element the comparator puts after it.  Which of the two elements the
\* engine passes first is its own choice (keyFirst).  n counts the
\* comparisons made; the clock jumps by jumpMs between the two readings of
\* comparison jumpAt.
RECURSIVE InsertInto(_, _, _, _, _, _, _, _)
InsertInto(sorted, j, key, n, now, jumpAt, jumpMs, keyFirst) ==
    IF j = 0 THEN [now |-> now, n |-> n, out |-> <<key>> \o sorted]
    ELSE LET t2 == IF n + 1 = jumpAt THEN now + jumpMs ELSE now
             keyGoesLeft == IF keyFirst
                            THEN Comparator(key, sorted[j], now, t2) < 0
                            ELSE Comparator(sorted[j], key, now, t2) > 0
         IN  IF keyGoesLeft
             THEN InsertInto(sorted, j - 1, key, n + 1, t2, jumpAt, jumpMs, keyFirst)
             ELSE [now |-> t2,
                   n |-> n + 1,
                   out |-> SubSeq(sorted, 1, j) \o <<key>>
                           \o SubSeq(sorted, j + 1, Len(sorted))]

RECURSIVE SortFrom(_, _, _, _, _, _)
SortFrom(list, k, acc, jumpAt, jumpMs, keyFirst) ==
    IF k > Len(list) THEN acc
    ELSE SortFrom(list, k + 1,
                  InsertInto(acc.out, Len(acc.out), list[k], acc.n, acc.now,
                             jumpAt, jumpMs, keyFirst),
                  jumpAt, jumpMs, keyFirst)

\* Lines 109-125: map, then sort.  .out is the list, .now the clock after it.
getLoansFinish(loans, isTestnet, now, jumpAt, jumpMs, keyFirst) ==
    LET views == [i \in 1..Len(loans) |-> LoanView(loans[i], isTestnet, now)]
    IN  SortFrom(views, 1, [now |-> now, n |-> 0, out |-> <<>>],
                 jumpAt, jumpMs, keyFirst)

\* The comparisons a sort of n elements can make, and the clock jumps.
MaxCompare(n) == (n * (n - 1)) \div 2

\* A jump longer than the second that separates two deadlines.
JumpSizes == {3 * TickMs}

(***************************************************************************)
(* getLoansToLiquidate (useLoans.tsx 151-201).                             *)
(***************************************************************************)
\* Lines 162-181.
getLoansToLiquidateStart(endpoint, liquidatorAddress) ==
    IF ~Truthy(liquidatorAddress)
    THEN [result |-> Ok(<<>>), step |-> "return", request |-> <<>>]
    ELSE IF endpoint = ""
    THEN [result |-> Threw(WrapError(InvalidArguments, "Couldn't get pool data")),
          step |-> "return",
          request |-> <<>>]
    ELSE [result |-> NoResult, step |-> "request",
          request |-> liquidatorsByAddressQuery(liquidatorAddress)]

LiquidatableKeepAll(loansPerPool, now) == Flatten(loansPerPool)

\* Lines 187-197: the loans whose deadline is not after Date.now().
Liquidatable(loansPerPool, now) ==
    SelectSeq(Flatten(loansPerPool), LAMBDA loan : loan.deadline - now <= 0)

(***************************************************************************)
(* The state before any call, and the clock.                               *)
(***************************************************************************)
MkArgs(op, chainId, userAddress, poolAddress, liquidatorAddress, ownerAddress, collectionAddress, skipOracle) ==
    [chainId |-> chainId, userAddress |-> userAddress, poolAddress |-> poolAddress,
     liquidatorAddress |-> liquidatorAddress, op |-> op,
     ownerAddress |-> ownerAddress, collectionAddress |-> collectionAddress,
     skipOracle |-> skipOracle]

NoArgs == MkArgs("none", 0, Absent, Absent, Absent, Absent, Absent, FALSE)

HookInit ==
    [data |-> "", txHash |-> "", dialogOpen |-> TRUE, txConfirmingId |-> 0,
     receipt |-> 0, nextToastId |-> 1, toasts |-> {}, trace |-> <<>>]

Init ==
    /\ clock = 0
    /\ pc = "idle"
    /\ args = NoArgs
    /\ calledAt = 0
    /\ requests = <<>>
    /\ pools = <<>>
    /\ live = <<>>
    /\ admin = <<>>
    /\ fetched = <<>>
    /\ result = NoResult
    /\ adminRecords = {}
    /\ hook = HookInit

DayMs == SECONDS_IN_A_DAY * MsPerSecond

CanAdvance(ms) == (clock % DayMs) + ms <= MaxTicks * TickMs

\* Time passes before a call and while a loan call waits (getAllpools never
\* reads the clock); a call that has returned is not followed further.
ClockIsRead == pc \in {"idle", "loans", "liquidators", "liquidatorLoans"}

Tick ==
    /\ ClockIsRead
    /\ CanAdvance(TickMs)
    /\ clock' = clock + TickMs
    /\ UNCHANGED <<pc, args, calledAt, requests, pools, live, admin, fetched,
                   result, adminRecords, hook>>

DayPasses ==
    /\ ClockIsRead
    /\ clock \div DayMs < MaxDays
    /\ clock' = clock + DayMs
    /\ UNCHANGED <<pc, args, calledAt, requests, pools, live, admin, fetched,
                   result, adminRecords, hook>>

CallerAddresses(ids) == {Absent} \cup {Addr(who, form) : who \in ids, form \in CallerForms}

\* A call begins: it returns or throws at once, or sends its first request.
Begin(callArgs, start, waitPc) ==
    /\ pc = "idle"
    /\ args' = callArgs
    /\ calledAt' = clock
    /\ pools' = <<>>
    /\ live' = <<>>
    /\ admin' = <<>>
    /\ fetched' = <<>>
    /\ IF start.step = "request"
       THEN pc' = waitPc /\ requests' = <<start.request>> /\ result' = NoResult
       ELSE pc' = "done" /\ requests' = <<>> /\ result' = start.result
    /\ UNCHANGED <<clock, adminRecords, hook>>

\* The clock jumps the sort of n loans may see.
SortJumps(n) ==
    {<<0, 0>>} \cup {<<at, ms>> \in (1..MaxCompare(n)) \X JumpSizes : CanAdvance(ms)}

(***************************************************************************)
(* useGetLoans (useLoans.tsx 131-149): line 144 calls getLoans with the    *)
(* endpoint, userAddress and isTestnet; poolAddress is not passed on.      *)
(***************************************************************************)
useGetLoans(chainId, userAddress, poolAddress) ==
    getLoansStart(chainConfig(chainId).subgraphUrl, userAddress, Absent)

UseGetLoans ==
    \E chainId \in ChainIds, userAddress \in CallerAddresses({"alice"}),
       poolAddress \in CallerAddresses({"poolA"}) :
        Begin(MkArgs("listLoans", chainId, userAddress, poolAddress, Absent,
                     Absent, Absent, FALSE),
              useGetLoans(chainId, userAddress, poolAddress), "loans")

\* The indexer answers the loans query: lines 109-125 run.
LoansResolve ==
    /\ pc = "loans"
    /\ \E ids \in IndexerLoanAnswers(requests[1]), form \in IndexerForms :
        \E jump \in SortJumps(Len(ids)), keyFirst \in BOOLEAN :
            LET loans == [k \in 1..Len(ids) |-> GraphLoan(ids[k], form)]
                done == getLoansFinish(loans, chainConfig(args.chainId).isTestnet,
                                       clock, jump[1], jump[2], keyFirst)
            IN  /\ result' = Ok(done.out)
                /\ clock' = done.now
    /\ pc' = "done"
    /\ UNCHANGED <<args, calledAt, requests, pools, live, admin, fetched,
                   adminRecords, hook>>

\* The loans query fails: the catch of lines 126-128.
LoansReject ==
    /\ pc = "loans"
    /\ \E error \in UpstreamErrors :
        result' = Threw(WrapError(error, "Couldn't get pool data"))
    /\ pc' = "done"
    /\ UNCHANGED <<clock, args, calledAt, requests, pools, live, admin, fetched,
                   adminRecords, hook>>

(***************************************************************************)
(* useGetLoansToLiquidate (useLoans.tsx 203-219) and getLoansToLiquidate.  *)
(***************************************************************************)
UseGetLoansToLiquidate ==
    \E chainId \in ChainIds, liquidatorAddress \in CallerAddresses(UserIds) :
        Begin(MkArgs("listLiquidatableLoans", chainId, Absent, Absent,
                     liquidatorAddress, Absent, Absent, FALSE),
              getLoansToLiquidateStart(chainConfig(chainId).subgraphUrl,
                                       liquidatorAddress),
              "liquidators")

\* Lines 183-185: one getLoans per pool of the answer, all started at once.
LiquidatorsResolve ==
    /\ pc = "liquidators"
    /\ \E form \in IndexerForms :
        LET names == IndexerLiquidatorPools(requests[1])
            addresses == [k \in 1..Len(names) |-> Addr(names[k], form)]
            starts == [k \in 1..Len(names) |->
                         getLoansStart(chainConfig(args.chainId).subgraphUrl,
                                       Absent, addresses[k])]
        IN  /\ pools' = addresses
            /\ requests' = requests \o [k \in 1..Len(names) |-> starts[k].request]
            /\ live' = [k \in 1..Len(names) |-> "pending"]
            /\ fetched' = [k \in 1..Len(names) |-> <<>>]
            /\ IF names = <<>>
               THEN pc' = "done" /\ result' = Ok(Liquidatable(<<>>, clock))
               ELSE pc' = "liquidatorLoans" /\ result' = result
    /\ UNCHANGED <<clock, args, calledAt, admin, adminRecords, hook>>

LiquidatorsReject ==
    /\ pc = "liquidators"
    /\ \E error \in UpstreamErrors :
        result' = Threw(WrapError(error, "Couldn't get pool data"))
    /\ pc' = "done"
    /\ UNCHANGED <<clock, args, calledAt, requests, pools, live, admin, fetched,
                   adminRecords, hook>>

\* One pool's loans arrive (the indexer writes addresses as it did in its
\* first answer); after the last, lines 187-197 filter.
LiquidatorLoansResolve ==
    /\ pc = "liquidatorLoans"
    /\ \E k \in 1..Len(pools) :
        /\ live[k] = "pending"
        /\ \E ids \in IndexerLoanAnswers(requests[k + 1]) :
            \E jump \in SortJumps(Len(ids)), keyFirst \in BOOLEAN :
                LET loans == [j \in 1..Len(ids) |-> GraphLoan(ids[j], pools[k].form)]
                    done == getLoansFinish(loans, chainConfig(args.chainId).isTestnet,
                                           clock, jump[1], jump[2], keyFirst)
                    nowLive == [live EXCEPT ![k] = "done"]
                    nowFetched == [fetched EXCEPT ![k] = done.out]
                IN  /\ live' = nowLive
                    /\ fetched' = nowFetched
                    /\ clock' = done.now
                    /\ IF \A j \in 1..Len(pools) : nowLive[j] = "done"
                       THEN /\ pc' = "done"
                            /\ result' = Ok(Liquidatable(nowFetched, done.now))
                       ELSE pc' = pc /\ result' = result
    /\ UNCHANGED <<args, calledAt, requests, pools, admin, adminRecords, hook>>

\* One pool's loans query fails: getLoans wraps the error, Promise.all
\* rejects, and the catch of lines 198-200 wraps it again.
LiquidatorLoansReject ==
    /\ pc = "liquidatorLoans"
    /\ \E k \in 1..Len(pools), error \in UpstreamErrors :
        /\ live[k] = "pending"
        /\ live' = [live EXCEPT ![k] = "failed"]
        /\ result' = Threw(WrapError(WrapError(error, "Couldn't get pool data"),
                                     "Couldn't get pool data"))
    /\ pc' = "done"
    /\ UNCHANGED <<clock, args, calledAt, requests, pools, admin, fetched,
                   adminRecords, hook>>

NextLoans ==
    \/ Tick
    \/ DayPasses
    \/ UseGetLoans
    \/ LoansResolve
    \/ LoansReject
    \/ UseGetLoansToLiquidate
    \/ LiquidatorsResolve
    \/ LiquidatorsReject
    \/ LiquidatorLoansResolve
    \/ LiquidatorLoansReject

SpecLoans == Init /\ [][NextLoans]_vars

(***************************************************************************)
(* The pool aggregator (part_001).  The indexer's pools, IPoolsQueryResponse.*)
(* Raw interest rates are written in units of 1e8: k stands for k * 1e8.   *)
(***************************************************************************)
PoolNames == <<"poolA", "poolB", "poolC">>

SubgraphPool(k) ==
    [owner |-> PoolOwner(PoolNames[k]),
     name |-> PoolNames[k],
     symbol |-> "LL",
     maxLoanLength |-> 7 * k,
     minimumInterest |-> 40,
     maxVariableInterestPerEthPerSecond |-> 20,
     ltv |-> IF k = 1 THEN 50 ELSE 100,
     nftContract |-> IF k <= 2 THEN "punks" ELSE "apes"]

GraphPool(k, form) ==
    LET p == SubgraphPool(k)
    IN  [owner |-> Addr(p.owner, form),
         name |-> p.name,
         address |-> Addr(p.name, form),
         symbol |-> p.symbol,
         maxLoanLength |-> p.maxLoanLength,
         minimumInterest |-> p.minimumInterest,
         maxVariableInterestPerEthPerSecond |-> p.maxVariableInterestPerEthPerSecond,
         ltv |-> p.ltv,
         nftContract |-> Addr(p.nftContract, form)]

\* Lines 154-200: the three pool-list queries.
getAllPoolsQuery ==
    [to |-> "indexer", entity |-> "pools", by |-> "all", key |-> Absent]

getAllPoolsByCollectionQuery(collectionAddress) ==
    [to |-> "indexer", entity |-> "pools", by |-> "nftContract",
     key |-> toLowerCase(collectionAddress)]

getAllPoolsByOwner(ownerAddress) ==
    [to |-> "indexer", entity |-> "pools", by |-> "owner",
     key |-> toLowerCase(ownerAddress)]

\* Line 110: the liquidators of one pool.
liquidatorsByPoolQuery(poolAddress) ==
    [to |-> "indexer", entity |-> "liquidators", by |-> "pool",
     key |-> toLowerCase(poolAddress)]

PoolMatches(query, k) ==
    \/ query.by = "all"
    \/ /\ query.key.form = "lower"
       /\ IF query.by = "owner" THEN SubgraphPool(k).owner = query.key.who
          ELSE SubgraphPool(k).nftContract = query.key.who

\* The pool list the indexer answers with.
IndexerPoolAnswer(query) ==
    SelectSeq([k \in 1..MaxPools |-> k], LAMBDA k : PoolMatches(query, k))

\* The liquidator addresses the indexer lists for a pool.
IndexerPoolLiquidators(query, form) ==
    LET who == SelectSeq(<<"alice", "bob">>,
                         LAMBDA u : /\ query.key.form = "lower"
                                    /\ query.key.who \in PoolIds
                                    /\ u \in LiquidatorsOf(query.key.who))
    IN  [j \in 1..Len(who) |-> Addr(who[j], form)]

\* The outbound reads of one enrichment, sent together.
OracleFetch(nftContractAddress) ==
    [to |-> "oracle", entity |-> "quote", by |-> "nftContract", key |-> nftContractAddress]

LiveReads(poolAddress) ==
    [to |-> "chain", entity |-> "live reads", by |-> "pool", key |-> poolAddress]

AdminReads(poolAddress) ==
    [to |-> "chain", entity |-> "admin reads", by |-> "pool", key |-> poolAddress]

(***************************************************************************)
(* getPoolAddlInfo (part_001 32-85).                                       *)
(***************************************************************************)
NoPrice == -1       \* quote?.price when the oracle is skipped

LtvScale == 100

\* ~/utils, not in the sources: the price one NFT can borrow against, and how
\* many NFTs maxInstantBorrow covers.
getMaxNftsToBorrow(maxInstantBorrow, oraclePrice, ltv) ==
    IF oraclePrice = NoPrice
    THEN [pricePerNft |-> NoPrice, maxNftsToBorrow |-> 0]
    ELSE LET pricePerNft == (oraclePrice * ltv) \div LtvScale
         IN  [pricePerNft |-> pricePerNft,
              maxNftsToBorrow |-> IF pricePerNft = 0 THEN 0
                                  ELSE maxInstantBorrow \div pricePerNft]

\* What the six reads of lines 55-63 may return, and the oracle's quotes.
LiveReadings ==
    [maxInstantBorrow : {4, 8}, collectionName : {"Punks"}, poolBalance : {5},
     totalBorrowed : {2}, currentAnnualInterest : {3},
     oracle : {Addr("oracleX", "checksum")}]

QuotePrices == {2}

\* Lines 65-81.
getPoolAddlInfo(reads, oraclePrice, ltv) ==
    LET priceAndCurrentBorrowables ==
            getMaxNftsToBorrow(reads.maxInstantBorrow, oraclePrice, ltv)
    IN  [oraclePrice |-> oraclePrice,
         pricePerNft |-> priceAndCurrentBorrowables.pricePerNft,
         maxNftsToBorrow |-> priceAndCurrentBorrowables.maxNftsToBorrow,
         collectionName |-> reads.collectionName,
         poolBalance |-> reads.poolBalance,
         totalBorrowed |-> reads.totalBorrowed,
         currentAnnualInterest |-> reads.currentAnnualInterest,
         oracle |-> reads.oracle,
         totalDeposited |-> reads.poolBalance + reads.totalBorrowed]

(***************************************************************************)
(* getAdminPoolInfo (part_001 87-152).  Strings are sequences of tokens:   *)
(* a decimal digit each, and two tokens for an address.                    *)
(***************************************************************************)
SECONDS_IN_A_YEAR == 31536000

RateUnit == 100000000

DigitChars == <<"0", "1", "2", "3", "4", "5", "6", "7", "8", "9">>

RECURSIVE Digits(_)
Digits(n) ==
    IF n < 10 THEN <<DigitChars[n + 1]>>
    ELSE Digits(n \div 10) \o <<DigitChars[(n % 10) + 1]>>

AddressString(a) == <<a.who, a.form>>

\* Lines 118-122: BigNumber(raw).div(1e16).times(SECONDS_IN_A_YEAR).toFixed(0, 1),
\* the raw rate being rate * 1e8.
AnnualRate(rate) == (rate * SECONDS_IN_A_YEAR) \div RateUnit

\* Lines 127-138.
getAdminPoolInfoKey(poolAddress, nftContractAddress, reads, liquidators) ==
    LET minInt == AnnualRate(reads.minimumInterest)
        maxVariableInt == AnnualRate(reads.maxVariableInterestPerEthPerSecond)
        liqAddresses == [j \in 1..Len(liquidators) |-> getAddress(liquidators[j])]
    IN  AddressString(nftContractAddress) \o AddressString(poolAddress)
        \o Digits(reads.maxPrice)
        \o Digits(reads.maxInstantBorrow)
        \o Digits(reads.dailyBorrows)
        \o Digits(reads.maxDailyBorrowsLimit)
        \o Digits(reads.maxLoanLength)
        \o Digits(reads.maxLoanLength)
        \o Digits(minInt)
        \o Digits(maxVariableInt)
        \o Flatten([j \in 1..Len(liqAddresses) |-> AddressString(liqAddresses[j])])

\* Lines 118-148.
getAdminPoolInfo(poolAddress, nftContractAddress, reads, liquidators) ==
    [key |-> getAdminPoolInfoKey(poolAddress, nftContractAddress, reads, liquidators),
     maxLoanLength |-> reads.maxLoanLength,
     minimumInterest |-> Digits(AnnualRate(reads.minimumInterest)),
     maxInstantBorrow |-> reads.maxInstantBorrow,
     oracle |-> reads.oracle,
     liquidators |-> [j \in 1..Len(liquidators) |-> getAddress(liquidators[j])],
     maxPrice |-> reads.maxPrice,
     dailyBorrows |-> reads.dailyBorrows,
     maxDailyBorrows |-> reads.maxDailyBorrowsLimit,
     maximumInterest |-> Digits(AnnualRate(reads.maxVariableInterestPerEthPerSecond)
                                + AnnualRate(reads.minimumInterest))]

\* What the contract reads of lines 100-105 return while a pool list is
\* enriched.
AdminReadings ==
    [maxLoanLength : {7},
     minimumInterest : {40},
     maxVariableInterestPerEthPerSecond : {20},
     maxInstantBorrow : {4},
     oracle : {Addr("oracleX", "checksum")},
     maxPrice : {1, 11},
     dailyBorrows : {0},
     maxDailyBorrowsLimit : {9}]

(***************************************************************************)
(* getAllpools (part_001 202-276).                                         *)
(***************************************************************************)
\* Lines 205-222.
getAllpoolsStart(chainId, collectionAddress, ownerAddress) ==
    IF chainId = 0
    THEN [result |-> Ok(<<>>), step |-> "return", request |-> <<>>]
    ELSE LET config == chainConfig(chainId)
         IN  IF ~config.chainProvider \/ config.quoteApi = "" \/ config.subgraphUrl = ""
             THEN [result |-> Threw(WrapError([message |-> "Invalid arguments",
                                               reason |-> NoReason],
                                              "Couldn't get pools")),
                   step |-> "return",
                   request |-> <<>>]
             ELSE [result |-> NoResult, step |-> "request",
                   request |-> IF Truthy(ownerAddress)
                               THEN getAllPoolsByOwner(ownerAddress)
                               ELSE IF Truthy(collectionAddress)
                               THEN getAllPoolsByCollectionQuery(collectionAddress)
                               ELSE getAllPoolsQuery]

\* Lines 250-271: one pool of the returned list.
PoolView(pool, info, adminInfo) ==
    [owner |-> getAddress(pool.owner),
     name |-> pool.name,
     address |-> getAddress(pool.address),
     symbol |-> pool.symbol,
     maxLoanLength |-> pool.maxLoanLength,
     maxVariableInterestPerEthPerSecond |->
         pool.maxVariableInterestPerEthPerSecond + pool.minimumInterest,
     ltv |-> pool.ltv,
     nftContract |-> getAddress(pool.nftContract),
     oraclePrice |-> info.oraclePrice,
     pricePerNft |-> info.pricePerNft,
     maxNftsToBorrow |-> info.maxNftsToBorrow,
     collectionName |-> info.collectionName,
     poolBalance |-> info.poolBalance,
     totalBorrowed |-> info.totalBorrowed,
     currentAnnualInterest |-> info.currentAnnualInterest,
     oracle |-> info.oracle,
     totalDeposited |-> info.totalDeposited,
     adminPoolInfo |-> adminInfo]

\* Line 272: sort((a, b) => Number(b.maxNftsToBorrow) - Number(a.maxNftsToBorrow)).
RECURSIVE InsertPool(_, _, _)
InsertPool(sorted, j, key) ==
    IF j = 0 THEN <<key>> \o sorted
    ELSE IF key.maxNftsToBorrow - sorted[j].maxNftsToBorrow > 0
    THEN InsertPool(sorted, j - 1, key)
    ELSE SubSeq(sorted, 1, j) \o <<key>> \o SubSeq(sorted, j + 1, Len(sorted))

RECURSIVE SortPools(_, _, _)
SortPools(list, k, acc) ==
    IF k > Len(list) THEN acc
    ELSE SortPools(list, k + 1, InsertPool(acc, Len(acc), list[k]))

\* Lines 249-272.
MergePools(poolList, poolAddlInfo, adminPoolInfo) ==
    SortPools([k \in 1..Len(poolList) |->
                  PoolView(poolList[k], poolAddlInfo[k], adminPoolInfo[k].info)],
              1, <<>>)

AdminBatchStartsAtOnce(liveStates) == TRUE

\* Lines 224-238: `await Promise.all(...getPoolAddlInfo...)` comes before the
\* getAdminPoolInfo calls are made.
AdminBatchMayStart(liveStates) ==
    \A k \in 1..Len(liveStates) : liveStates[k] = "done"

UseGetAllPools ==
    \E chainId \in ChainIds, collectionAddress \in CallerAddresses({"punks"}),
       ownerAddress \in CallerAddresses({"carol"}), skipOracle \in BOOLEAN :
        Begin(MkArgs("listPools", chainId, Absent, Absent, Absent, ownerAddress,
                     collectionAddress, skipOracle),
              getAllpoolsStart(chainId, collectionAddress, ownerAddress),
              "poolList")

\* The pool list arrives: line 224 starts getPoolAddlInfo for every pool, each
\* of which first asks the oracle unless skipOracle (line 53).
PoolListResolve ==
    /\ pc = "poolList"
    /\ \E form \in IndexerForms :
        LET ks == IndexerPoolAnswer(requests[1])
            list == [j \in 1..Len(ks) |-> GraphPool(ks[j], form)]
        IN  /\ pools' = list
            /\ live' = [j \in 1..Len(ks) |-> IF args.skipOracle THEN "reads" ELSE "oracle"]
            /\ fetched' = [j \in 1..Len(ks) |-> [quote |-> NoPrice]]
            /\ admin' = [j \in 1..Len(ks) |-> [info |-> <<>>, state |-> "idle"]]
            /\ requests' = requests \o
                   [j \in 1..Len(ks) |-> IF args.skipOracle
                                         THEN LiveReads(list[j].address)
                                         ELSE OracleFetch(list[j].nftContract)]
            /\ IF list = <<>>
               THEN pc' = "done" /\ result' = Ok(MergePools(<<>>, <<>>, <<>>))
               ELSE pc' = "liveBatch" /\ result' = result
    /\ UNCHANGED <<clock, args, calledAt, adminRecords, hook>>

PoolListReject ==
    /\ pc = "poolList"
    /\ \E error \in UpstreamErrors :
        result' = Threw(WrapError(error, "Couldn't get pools"))
    /\ pc' = "done"
    /\ UNCHANGED <<clock, args, calledAt, requests, pools, live, admin, fetched,
                   adminRecords, hook>>

\* The oracle answers for pool k: lines 55-63 send the six reads.
OracleResolve ==
    /\ pc = "liveBatch"
    /\ \E k \in 1..Len(pools), price \in QuotePrices :
        /\ live[k] = "oracle"
        /\ live' = [live EXCEPT ![k] = "reads"]
        /\ fetched' = [fetched EXCEPT ![k] = [quote |-> price]]
        /\ requests' = Append(requests, LiveReads(pools[k].address))
    /\ UNCHANGED <<clock, pc, args, calledAt, pools, admin, result, adminRecords, hook>>

\* A live enrichment fails (oracle or reads): the catch of lines 82-84, the
\* rejection of Promise.all, the catch of lines 273-275.
LiveReject ==
    /\ pc = "liveBatch"
    /\ \E k \in 1..Len(pools), error \in ChainErrors :
        /\ live[k] \in {"oracle", "reads"}
        /\ live' = [live EXCEPT ![k] = "failed"]
        /\ result' = Threw(WrapError(
                         WrapError(error, "Couldn't get total amount deposited in pool."),
                         "Couldn't get pools"))
    /\ pc' = "done"
    /\ UNCHANGED <<clock, args, calledAt, requests, pools, admin, fetched,
                   adminRecords, hook>>

\* The six reads of pool k return.  When every live enrichment is done, line
\* 238 starts getAdminPoolInfo for every pool.
LiveReadsResolve ==
    /\ pc = "liveBatch"
    /\ \E k \in 1..Len(pools), reads \in LiveReadings :
        /\ live[k] = "reads"
        /\ LET nowLive == [live EXCEPT ![k] = "done"]
           IN  /\ live' = nowLive
               /\ fetched' = [fetched EXCEPT
                                 ![k] = getPoolAddlInfo(reads, fetched[k].quote, pools[k].ltv)]
               /\ IF AdminBatchMayStart(nowLive)
                  THEN /\ pc' = "adminBatch"
                       /\ admin' = [j \in 1..Len(pools) |-> [info |-> <<>>, state |-> "reads"]]
                       /\ requests' = requests \o Flatten(
                              [j \in 1..Len(pools) |->
                                  <<AdminReads(pools[j].address),
                                    liquidatorsByPoolQuery(pools[j].address)>>])
                  ELSE UNCHANGED <<pc, admin, requests>>
    /\ UNCHANGED <<clock, args, calledAt, pools, result, adminRecords, hook>>

\* The reads and the liquidators query of pool k return.  After the last,
\* lines 249-272 build the list.
AdminResolve ==
    /\ pc = "adminBatch"
    /\ \E k \in 1..Len(pools), reads \in AdminReadings :
        /\ admin[k].state = "reads"
        /\ LET liquidators == IndexerPoolLiquidators(
                                  liquidatorsByPoolQuery(pools[k].address),
                                  pools[k].address.form)
               info == getAdminPoolInfo(pools[k].address, pools[k].nftContract,
                                        reads, liquidators)
               nowAdmin == [admin EXCEPT ![k] = [info |-> info, state |-> "done"]]
           IN  /\ admin' = nowAdmin
               /\ IF \A j \in 1..Len(pools) : nowAdmin[j].state = "done"
                  THEN /\ pc' = "done"
                       /\ result' = Ok(MergePools(pools, fetched, nowAdmin))
                  ELSE UNCHANGED <<pc, result>>
    /\ UNCHANGED <<clock, args, calledAt, requests, pools, live, fetched,
                   adminRecords, hook>>

\* An admin enrichment fails: the catch of lines 149-151, then lines 273-275.
AdminReject ==
    /\ pc = "adminBatch"
    /\ \E k \in 1..Len(pools), error \in ChainErrors :
        /\ admin[k].state = "reads"
        /\ admin' = [admin EXCEPT ![k] = [info |-> <<>>, state |-> "failed"]]
        /\ result' = Threw(WrapError(WrapError(error, "Couldn't get pool data"),
                                     "Couldn't get pools"))
    /\ pc' = "done"
    /\ UNCHANGED <<clock, args, calledAt, requests, pools, live, fetched,
                   adminRecords, hook>>

NextPools ==
    \/ UseGetAllPools
    \/ PoolListResolve
    \/ PoolListReject
    \/ OracleResolve
    \/ LiveReject
    \/ LiveReadsResolve
    \/ AdminResolve
    \/ AdminReject

SpecPools == Init /\ [][NextPools]_vars

Next == NextLoans \/ NextPools

Spec == Init /\ [][Next]_vars

(***************************************************************************)
(* Admin Info records of one pool, from whatever its contract and the      *)
(* indexer return at the time of the reads.                                *)
(***************************************************************************)
MaxAdminRecords == 2

KeyReadings ==
    [maxLoanLength : {7},
     minimumInterest : {40},
     maxVariableInterestPerEthPerSecond : {20},
     maxInstantBorrow : {1, 11},
     oracle : {Addr("oracleX", "checksum"), Addr("oracleY", "checksum")},
     maxPrice : {1, 11},
     dailyBorrows : {0},
     maxDailyBorrowsLimit : {9}]

GetAdminPoolInfo ==
    /\ Cardinality(adminRecords) < MaxAdminRecords
    /\ \E reads \in KeyReadings, form \in IndexerForms :
        \E liquidators \in SubSeqs(IndexerPoolLiquidators(
                                       liquidatorsByPoolQuery(Addr("poolA", form)), form)) :
            adminRecords' = adminRecords \cup
                {getAdminPoolInfo(Addr("poolA", form), Addr("punks", form),
                                  reads, liquidators)}
    /\ UNCHANGED <<clock, pc, args, calledAt, requests, pools, live, admin,
                   fetched, result, hook>>

SpecAdmin == Init /\ [][GetAdminPoolInfo]_vars

(***************************************************************************)
(* useDeposit (useDeposit.tsx 17-76).  hook.data is contractWrite.data?.hash,*)
(* hook.txHash is txContext.hash.current, hook.toasts the toasts on screen;*)
(* hook.trace lists, in order, the callbacks the wallet library made and   *)
(* the calls each of them made.                                            *)
(***************************************************************************)
MaxWrites == 2      \* writes the wallet confirms
MaxSettles == 2     \* settlements the wallet library reports

TxHashes == {"0xaa", "0xbb"}

\* data?.status of onSettled: 1, 0, or -1 for no receipt at all.
ReceiptStatuses == {1, 0, -1}

Event(op, txHash, id, status) == [status |-> status, id |-> id, op |-> op, txHash |-> txHash]

Count(trace, op) == Cardinality({i \in 1..Len(trace) : trace[i].op = op})

onSuccessKeepingOldId(h, hash) ==
    [h EXCEPT !.data = hash,
              !.txHash = hash,
              !.dialogOpen = ~h.dialogOpen,
              !.nextToastId = h.nextToastId + 1,
              !.toasts = h.toasts \cup {[id |-> h.nextToastId, txHash |-> hash,
                                         kind |-> "confirming"]},
              !.trace = h.trace \o <<Event("onSuccess", hash, 0, 0),
                                      Event("hash.current=", hash, 0, 0),
                                      Event("dialog.toggle", "", 0, 0),
                                      Event("txConfirming", hash, h.nextToastId, 0)>>]

\* Lines 45-50: the write succeeded with transaction `hash`.
onSuccess(h, hash) ==
    [h EXCEPT !.data = hash,
              !.txHash = hash,
              !.dialogOpen = ~h.dialogOpen,
              !.txConfirmingId = h.nextToastId,
              !.nextToastId = h.nextToastId + 1,
              !.toasts = h.toasts \cup {[id |-> h.nextToastId, txHash |-> hash,
                                         kind |-> "confirming"]},
              !.trace = h.trace \o <<Event("onSuccess", hash, 0, 0),
                                      Event("hash.current=", hash, 0, 0),
                                      Event("dialog.toggle", "", 0, 0),
                                      Event("txConfirming", hash, h.nextToastId, 0)>>]

\* Lines 55-69: the transaction h.data settled with receipt status `status`.
onSettled(h, status) ==
    LET outcome == IF status = 1 THEN "txSuccess" ELSE "txError"
    IN  [h EXCEPT !.receipt = status,
                  !.nextToastId = h.nextToastId + 1,
                  !.toasts = {t \in h.toasts : t.id # h.txConfirmingId}
                             \cup {[id |-> h.nextToastId, txHash |-> h.data,
                                    kind |-> outcome]},
                  !.trace = h.trace \o <<Event("onSettled", h.data, 0, status),
                                          Event("toast.dismiss", "", h.txConfirmingId, 0),
                                          Event(outcome, h.data, h.nextToastId, 0),
                                          Event("invalidateQueries", "", 0, 0)>>]

\* The wallet confirms a write.
WriteSucceeds ==
    /\ Count(hook.trace, "onSuccess") < MaxWrites
    /\ \E hash \in TxHashes : hook' = onSuccess(hook, hash)
    /\ UNCHANGED <<clock, pc, args, calledAt, requests, pools, live, admin,
                   fetched, result, adminRecords>>

\* useWaitForTransaction watches contractWrite.data?.hash once there is one.
TransactionSettles ==
    /\ hook.data # ""
    /\ Count(hook.trace, "onSettled") < MaxSettles
    /\ \E status \in ReceiptStatuses : hook' = onSettled(hook, status)
    /\ UNCHANGED <<clock, pc, args, calledAt, requests, pools, live, admin,
                   fetched, result, adminRecords>>

NextDeposit == WriteSucceeds \/ TransactionSettles

SpecDeposit == Init /\ [][NextDeposit]_vars

(***************************************************************************)
(* Properties of the loan aggregators.                                     *)
(***************************************************************************)
\* The loans a step hands over: the list of listLoans, or one pool's list in
\* a liquidation call.
LoansOf(list) == {list[i] : i \in 1..Len(list)}

\* toPay of loan view l when computed at whole second `now`, stated on the
\* exact value  whole + perDay/SECONDS_IN_A_DAY + perE18/1e18.
ToPayIsAsStated(l, now) ==
    LET deadline == l.deadline \div MsPerSecond
        lateFeesTimesDay == IF now > deadline THEN (now - deadline) * l.borrowed ELSE 0
        accruedInterestTimesE18 == (now - l.startTime) * l.interest * l.borrowed
    IN  /\ l.toPay.perDay \in 0..(SECONDS_IN_A_DAY - 1)
        /\ (l.toPay.whole * SECONDS_IN_A_DAY) + l.toPay.perDay
               = (l.borrowed * SECONDS_IN_A_DAY) + lateFeesTimesDay
        /\ l.toPay.perE18 = accruedInterestTimesE18
        /\ (now = deadline + SECONDS_IN_A_DAY) =>
               (l.toPay.whole = 2 * l.borrowed /\ l.toPay.perDay = 0)
        /\ (now <= deadline) => (l.toPay.whole = l.borrowed /\ l.toPay.perDay = 0)

\* C1: every loan the loan aggregator computes, in a step taken when the
\* clock reads `clock`, has toPay = borrowed + accruedInterest + lateFees with
\* accruedInterest = (now - startTime) * interest * borrowed / 1e18 and
\* lateFees = (now - deadline) * borrowed / SECONDS_IN_A_DAY if now > deadline,
\* else 0, where now is the clock in whole seconds; one day late, lateFees is
\* the borrowed amount.
C1_ToPay ==
    [][ /\ (pc = "loans" /\ result'.status = "ok") =>
              \A l \in LoansOf(result'.value) : ToPayIsAsStated(l, BlockTimestamp(clock))
        /\ (pc = "liquidatorLoans") =>
              \A k \in 1..Len(pools) :
                  (live[k] = "pending" /\ live'[k] = "done") =>
                      \A l \in LoansOf(fetched'[k]) :
                          ToPayIsAsStated(l, BlockTimestamp(clock)) ]_vars

\* C1 witness: listLoans returned a loan exactly one day past its deadline,
\* whose toPay is twice the borrowed amount plus the accrued interest.
C1_OneDayLate ==
    /\ pc = "done"
    /\ args.op = "listLoans"
    /\ \E l \in LoansOf(result.value) :
        /\ l.borrowed > 0
        /\ BlockTimestamp(clock) >= (l.deadline \div MsPerSecond) + SECONDS_IN_A_DAY
        /\ l.toPay.whole = 2 * l.borrowed
        /\ l.toPay.perDay = 0
        /\ l.toPay.perE18 > 0

\* C2: a listLoans call with a resolvable endpoint issues exactly one indexer
\* query, the by-pool query whenever poolAddress is given and else the
\* by-user query; it returns the empty shortcut only when neither is given.
C2_OneQueryByPoolFirst ==
    (args.op = "listLoans" /\ chainConfig(args.chainId).subgraphUrl # "") =>
        /\ Truthy(args.poolAddress) =>
               requests = <<loansByPoolQuery(args.poolAddress)>>
        /\ (~Truthy(args.poolAddress) /\ Truthy(args.userAddress)) =>
               requests = <<userLoansQuery(args.userAddress)>>
        /\ (requests = <<>>) =>
               (~Truthy(args.poolAddress) /\ ~Truthy(args.userAddress))

\* C3 as written: a successful listLiquidatableLoans returns only loans of
\* pools the liquidator is authorized for, none of them with a deadline
\* after the time of the call.
C3_NoneAfterCallTime ==
    (args.op = "listLiquidatableLoans" /\ pc = "done" /\ result.status = "ok") =>
        \A l \in LoansOf(result.value) :
            /\ args.liquidatorAddress.who \in LiquidatorsOf(l.pool.name)
            /\ l.deadline <= calledAt

\* C3 amended: a successful listLiquidatableLoans asked for the loans of
\* exactly the pools the liquidator is authorized for, and returns exactly
\* those of the fetched loans whose deadline is not after the clock at the
\* time of filtering (the clock of the state in which the call returned).
C3_PassedAtFilterTime ==
    (args.op = "listLiquidatableLoans" /\ pc = "done" /\ result.status = "ok"
        /\ Truthy(args.liquidatorAddress)) =>
        LET fetchedLoans == UNION {LoansOf(fetched[k]) : k \in 1..Len(fetched)}
        IN  /\ {pools[k].who : k \in 1..Len(pools)}
                   = {p \in PoolIds : args.liquidatorAddress.who \in LiquidatorsOf(p)}
            /\ LoansOf(result.value) = {l \in fetchedLoans : l.deadline - clock <= 0}
            /\ Len(result.value) = Cardinality(LoansOf(result.value))
            /\ \A l \in LoansOf(result.value) :
                   args.liquidatorAddress.who \in LiquidatorsOf(l.pool.name)

\* C3 witness: the call returned a loan whose deadline passed while it was
\* waiting, and left out a fetched loan whose deadline is still ahead.
C3_PassedWhileWaiting ==
    /\ args.op = "listLiquidatableLoans"
    /\ pc = "done"
    /\ result.status = "ok"
    /\ \E l \in LoansOf(result.value) : l.deadline > calledAt /\ l.deadline <= clock
    /\ \E k \in 1..Len(fetched) :
           \E l \in LoansOf(fetched[k]) : l.deadline > clock /\ l \notin LoansOf(result.value)

\* C5: listPools without chainId, listLoans with neither poolAddress nor
\* userAddress, and listLiquidatableLoans without liquidatorAddress return
\* the empty list at once, whatever the chain's configuration, and issue no
\* outbound request.
C5_DegenerateInputs ==
    (\/ args.op = "listPools" /\ args.chainId = 0
     \/ args.op = "listLoans" /\ ~Truthy(args.poolAddress) /\ ~Truthy(args.userAddress)
     \/ args.op = "listLiquidatableLoans" /\ ~Truthy(args.liquidatorAddress)) =>
        /\ pc = "done"
        /\ result = Ok(<<>>)
        /\ requests = <<>>

\* C5 witness: listLoans was called with no address on a chain that has no
\* indexer endpoint.
C5_NoAddressNoEndpoint ==
    /\ args.op = "listLoans"
    /\ ~Truthy(args.poolAddress)
    /\ ~Truthy(args.userAddress)
    /\ chainConfig(args.chainId).subgraphUrl = ""
    /\ pc = "done"

\* C6: the list listLoans returns is in ascending order of deadline, however
\* the clock advances between the two readings of one comparison.
C6_DeadlineAscending ==
    (args.op = "listLoans" /\ pc = "done" /\ result.status = "ok") =>
        \A i \in 1..Len(result.value) : \A j \in i..Len(result.value) :
            result.value[i].deadline <= result.value[j].deadline

IsChecksummed(a) == a.form = "checksum"

\* C9: every address in the records the pool and loan aggregators return is
\* checksummed, and every address in an indexer query filter is lowercase.
C9_AddressesNormalized ==
    /\ \A i \in 1..Len(requests) :
           (requests[i].to = "indexer" /\ requests[i].key # Absent) =>
               requests[i].key.form = "lower"
    /\ (args.op \in {"listLoans", "listLiquidatableLoans"} /\ result.status = "ok") =>
           \A l \in LoansOf(result.value) :
               /\ IsChecksummed(l.owner)
               /\ IsChecksummed(l.pool.address)
               /\ IsChecksummed(l.pool.owner)
    /\ (args.op = "listPools" /\ result.status = "ok") =>
           \A p \in LoansOf(result.value) :
               /\ IsChecksummed(p.address)
               /\ IsChecksummed(p.owner)
               /\ IsChecksummed(p.nftContract)
               /\ \A j \in 1..Len(p.adminPoolInfo.liquidators) :
                      IsChecksummed(p.adminPoolInfo.liquidators[j])

(***************************************************************************)
(* Properties of the pool aggregator.                                      *)
(***************************************************************************)
\* C4: listPools is all-or-nothing.  A failed configuration, pool-list query
\* or enrichment of any pool ends the call with an error whose message is
\* not empty and with no list; a list is returned only when every pool's
\* live and admin enrichment succeeded, and it holds every pool with the
\* values its own enrichments fetched.
C4_AllOrNothing ==
    (args.op = "listPools") =>
        /\ (\E k \in 1..Len(live) : live[k] = "failed") =>
               (pc = "done" /\ result.status = "error")
        /\ (\E k \in 1..Len(admin) : admin[k].state = "failed") =>
               (pc = "done" /\ result.status = "error")
        /\ (pc = "done" /\ args.chainId # 0 /\ requests = <<>>) =>
               result.status = "error"
        /\ (result.status = "error") =>
               (result.message # "" /\ result.value = <<>>)
        /\ (result.status = "ok" /\ args.chainId # 0) =>
               /\ Len(result.value) = Len(pools)
               /\ \A k \in 1..Len(pools) :
                      /\ live[k] = "done"
                      /\ admin[k].state = "done"
                      /\ \E i \in 1..Len(result.value) :
                             /\ result.value[i].name = pools[k].name
                             /\ result.value[i].adminPoolInfo = admin[k].info
                             /\ result.value[i].totalDeposited = fetched[k].totalDeposited
                             /\ result.value[i].maxNftsToBorrow = fetched[k].maxNftsToBorrow

\* C4 witness: one pool's live enrichment succeeded, another's failed with
\* an error that carried neither message nor reason, and the call failed
\* with the fallback message.
C4_OneEnrichmentFailed ==
    /\ args.op = "listPools"
    /\ pc = "done"
    /\ result.status = "error"
    /\ result.message = "Couldn't get total amount deposited in pool."
    /\ \E k \in 1..Len(live) : live[k] = "done"
    /\ \E k \in 1..Len(live) : live[k] = "failed"

\* C7 as written: once the pool list is obtained no admin enrichment waits
\* for a live enrichment: while live enrichments are outstanding, every
\* pool's admin enrichment has been started.
C7_AdminNeverWaits ==
    (args.op = "listPools" /\ pc = "liveBatch") =>
        \A k \in 1..Len(admin) : admin[k].state # "idle"

\* C7 amended: the live enrichments of all pools are started together when
\* the pool list arrives and complete in any order, and so do the admin
\* enrichments; but the admin enrichments are started only after every
\* pool's live enrichment has completed.
C7_AdminAfterLive ==
    (args.op = "listPools") =>
        /\ (\E k \in 1..Len(admin) : admin[k].state # "idle") =>
               \A j \in 1..Len(live) : live[j] = "done"
        /\ (pc = "liveBatch") =>
               \A k \in 1..Len(live) : live[k] \in {"oracle", "reads", "done"}
        /\ (pc = "adminBatch") =>
               \A k \in 1..Len(admin) : admin[k].state \in {"reads", "done"}

\* C7 witness: the second pool's live enrichment is complete, the first
\* pool's is still waiting for the oracle, and no admin enrichment has
\* been started.
C7_AdminWaiting ==
    /\ args.op = "listPools"
    /\ pc = "liveBatch"
    /\ Len(pools) = 2
    /\ live[1] = "oracle"
    /\ live[2] = "done"
    /\ \A k \in 1..Len(admin) : admin[k].state = "idle"

(***************************************************************************)
(* Property of the Admin Info records.                                     *)
(***************************************************************************)
\* C8: two Admin Info records with equal derived keys are equal in every
\* field.
C8_EqualKeysEqualRecords ==
    \A r1 \in adminRecords : \A r2 \in adminRecords :
        (r1.key = r2.key) =>
            /\ r1.maxPrice = r2.maxPrice
            /\ r1.maxInstantBorrow = r2.maxInstantBorrow
            /\ r1.dailyBorrows = r2.dailyBorrows
            /\ r1.maxDailyBorrows = r2.maxDailyBorrows
            /\ r1.maxLoanLength = r2.maxLoanLength
            /\ r1.oracle = r2.oracle
            /\ r1.minimumInterest = r2.minimumInterest
            /\ r1.maximumInterest = r2.maximumInterest
            /\ r1.liquidators = r2.liquidators

(***************************************************************************)
(* Property of the deposit hook.                                           *)
(***************************************************************************)
\* The toast id of the confirming toast raised for txHash before position i.
ConfirmingToastOf(trace, i, txHash) ==
    LET raised == {j \in 1..(i - 1) : trace[j].op = "txConfirming" /\ trace[j].txHash = txHash}
    IN  IF raised = {} THEN 0
        ELSE trace[CHOOSE j \in raised : \A m \in raised : m <= j].id

\* C10: a confirming toast is raised only inside the success callback of a
\* write, after the hash of that write was recorded; and every settlement
\* dismisses the confirming toast of the settled transaction, then raises
\* one outcome toast (success exactly when the receipt status is 1), then
\* invalidates the cached queries.
C10_ToastProtocol ==
    LET t == hook.trace
    IN  /\ \A i \in 1..Len(t) :
               (t[i].op = "txConfirming") =>
                   /\ i > 3
                   /\ t[i - 3].op = "onSuccess" /\ t[i - 3].txHash = t[i].txHash
                   /\ t[i - 2].op = "hash.current=" /\ t[i - 2].txHash = t[i].txHash
                   /\ t[i].id > 0
        /\ \A i \in 1..Len(t) :
               (t[i].op = "onSettled") =>
                   /\ i + 3 <= Len(t)
                   /\ t[i + 1].op = "toast.dismiss"
                   /\ t[i + 1].id = ConfirmingToastOf(t, i, t[i].txHash)
                   /\ t[i + 1].id > 0
                   /\ t[i + 2].op = (IF t[i].status = 1 THEN "txSuccess" ELSE "txError")
                   /\ t[i + 2].txHash = t[i].txHash
                   /\ t[i + 3].op = "invalidateQueries"
        /\ Count(t, "txSuccess") + Count(t, "txError") = Count(t, "onSettled")
        /\ Count(t, "toast.dismiss") = Count(t, "onSettled")
        /\ Count(t, "invalidateQueries") = Count(t, "onSettled")
        /\ (Count(t, "onSettled") > 0 /\ t[Len(t)].op = "invalidateQueries") =>
               ~ \E toast \in hook.toasts :
                     toast.kind = "confirming" /\ toast.id = hook.txConfirmingId

\* C10 witness: after two writes, the second transaction settled with a
\* receipt status other than 1.
C10_SecondWriteSettledFailed ==
    LET t == hook.trace
    IN  /\ Count(t, "onSuccess") = 2
        /\ Len(t) > 3
        /\ t[Len(t)].op = "invalidateQueries"
        /\ t[Len(t) - 1].op = "txError"
        /\ t[Len(t) - 2].id = 2

====
